---------------------------- MODULE Spec2Model ----------------------------
(***************************************************************************)
(* Node-local reclaimer of the shared-memory tensor cache                  *)
(* (openfaas/collector-kp/collector.py).                                   *)
(*                                                                         *)
(* The collector is one sequential process: node_collector loops over      *)
(* sleep, pod listing, cache listing, get_expired_tensor, delete_tensors.  *)
(* It shares the cache directory, the lock directory and the per-tensor    *)
(* advisory locks with the serving runtimes of the node, and reads the     *)
(* pods of the node from the orchestrator.  The collector's system calls   *)
(* are the atomic steps of the model; everything the other processes can   *)
(* do to the shared objects is an action of the environment.               *)
(*                                                                         *)
(* Time is in seconds since the start of the process.  It advances while   *)
(* the collector sleeps and while it is blocked in lockf.                  *)
(***************************************************************************)
EXTENDS Integers, Sequences, FiniteSets

\* ------------------------------------------------------------------------
\* Program constants
\* ------------------------------------------------------------------------

\* collector.py:11, seconds
COLLECT_PERIOD == 5

\* collector.py:12, minutes
KEEP_ALIVE == 1

\* datetime.timedelta(minutes=KEEP_ALIVE), in seconds (collector.py:45)
Grace == KEEP_ALIVE * 60

\* ------------------------------------------------------------------------
\* Bounds of the model
\* ------------------------------------------------------------------------

\* number of cycles of the loop that are explored
MaxCycles == 3

\* the clock stops advancing here
MaxTime == 130

\* pods scheduled on the node at the same time
MaxPods == 1

\* advisory locks held by serving processes at the same time
MaxReaders == 1

\* ------------------------------------------------------------------------
\* The node: installed models, their tensors, the pods that may run
\* ------------------------------------------------------------------------

\* names are sequences of characters, so that "model in p" is a real
\* substring test
M1 == <<"m", "1">>
M2 == <<"m", "2">>
PodM1 == <<"p", "-", "m", "1", "-", "x">>
PodM2 == <<"p", "-", "m", "2", "-", "x">>

Tensors == {"a", "b"}

\* the entries of MODEL_PATH
ModelNames == {M1, M2}

\* the manifests under MODEL_PATH, as get_tensors reads them at startup
Manifests == [m \in ModelNames |-> IF m = M1 THEN {"a"} ELSE {"a", "b"}]

PodNames == {PodM1, PodM2}

PodSets == {P \in SUBSET PodNames : Cardinality(P) <= MaxPods}

\* a sleep that may return a second early
Mutant_Delays == {COLLECT_PERIOD - 1, Grace}

\* how long time.sleep may take: the period itself, or (the process is not
\* scheduled at once) long enough for a keep-alive entry to run out
Delays == {COLLECT_PERIOD, Grace}

NoTensor == "none"

VARIABLES
    now,                 \* datetime.datetime.now(), seconds
    model_tensors,       \* local of node_collector: get_tensors(models)
    pods,                \* names of the pods running on this node
    memory_files,        \* entries of MEMORY_PATH
    lock_files,          \* entries of LOCK_PATH
    reader_lock,         \* tensors on whose lock file a serving process holds a
                         \* lock (LOCK_SH or LOCK_EX: LOCK_EX conflicts with both)
    pc,                  \* where node_collector / delete_tensors stands
    running_tensor_set,  \* local of node_collector
    expired_tensor_set,  \* argument of delete_tensors
    todo,                \* elements of expired_tensor_set not yet iterated
    cur,                 \* loop variable t of delete_tensors
    collector_lock,      \* tensors on whose lock file the collector holds LOCK_EX
    keep_alive_dict,     \* local of node_collector
    cycle,               \* number of the running cycle (history)
    first_cycle,         \* per tensor: cycle that inserted its entry (history)
    last_live,           \* per tensor: time of the last cycle that saw it live
                         \* while it had a keep-alive entry (history)
    opened_new,          \* open() of line 57 created the lock file (history)
    evicted_at           \* per tensor: time of the last os.remove of its cache
                         \* file by the collector (history, kept in LoggedSpec)

vars == <<now, model_tensors, pods, memory_files, lock_files, reader_lock, pc,
          running_tensor_set, expired_tensor_set, todo, cur, collector_lock,
          keep_alive_dict, cycle, first_cycle, last_live, opened_new,
          evicted_at>>

envVars == <<pods, memory_files, lock_files, reader_lock>>
histVars == <<cycle, first_cycle, last_live, opened_new, evicted_at>>

Never == 0 - 1

\* get_models(): local models of node_collector, the keys of model_tensors
models == DOMAIN model_tensors

\* ------------------------------------------------------------------------
\* Pure functions of collector.py
\* ------------------------------------------------------------------------

\* "model in p" for strings
IsSubstring(s, w) ==
    \E i \in 0..(Len(w) - Len(s)) : SubSeq(w, i + 1, i + Len(s)) = s

\* is_running that gives up after the first pod of the list
Mutant_is_running(model, pod_list) ==
    pod_list # <<>> /\ IsSubstring(model, Head(pod_list))

\* is_running(model, pods): the loop of lines 36-39 over the list of names
RECURSIVE is_running(_, _)
is_running(model, pod_list) ==
    IF pod_list = <<>>
    THEN FALSE
    ELSE IF IsSubstring(model, Head(pod_list))
         THEN TRUE
         ELSE is_running(model, Tail(pod_list))

\* line 74: [m for m in models if is_running(m, running_pods)]
RECURSIVE running_models(_, _)
running_models(model_list, pod_list) ==
    IF model_list = <<>>
    THEN <<>>
    ELSE (IF is_running(Head(model_list), pod_list)
          THEN <<Head(model_list)>> ELSE <<>>)
             \o running_models(Tail(model_list), pod_list)

\* lines 75-77: the loop that unions model_tensors[m] into
\* running_tensor_set
RECURSIVE UnionTensors(_, _, _)
UnionTensors(acc, model_list, mt) ==
    IF model_list = <<>>
    THEN acc
    ELSE UnionTensors(acc \cup mt[Head(model_list)], Tail(model_list), mt)

\* lines 74-77 for a list of models and a list of pod names
LiveTensors(model_list, mt, pod_list) ==
    UnionTensors({}, running_models(model_list, pod_list), mt)

\* the lists with the elements of S, each once: the orders in which
\* os.listdir and the pod listing may return them
Orderings(S) ==
    {s \in [1..Cardinality(S) -> S] : \A x \in S : \E i \in DOMAIN s : s[i] = x}

\* one of these lists
AsList(S) == CHOOSE s \in Orderings(S) : TRUE

\* running_tensor_set of lines 74-77 for the pods ps
RunningTensorSet(ps) == LiveTensors(AsList(models), model_tensors, AsList(ps))

\* line 79 without the difference: every cached tensor is a candidate
Mutant_DeleteTensorSet(existing, running) == existing

\* existing_tensor_set.difference(running_tensor_set) (line 79)
DeleteTensorSet(existing, running) == existing \ running

\* get_expired_tensor without the comparison of line 45
Mutant_get_expired_tensor(delete_tensor_set, kad, t_now) ==
    {t \in delete_tensor_set : t \in DOMAIN kad}

\* get_expired_tensor that makes the missing entry first and tests then
Mutant_ExpiredAfter(g, delete_tensor_set, kad, t_now) ==
    {t \in delete_tensor_set :
        (IF t \in DOMAIN kad THEN kad[t] ELSE t_now) + g <= t_now}

\* lines 42-49 for a keep-alive period of g seconds: the set returned
ExpiredAfter(g, delete_tensor_set, kad, t_now) ==
    {t \in delete_tensor_set : t \in DOMAIN kad /\ kad[t] + g <= t_now}

\* get_expired_tensor with < in place of <= in line 45
Mutant_get_expired_tensor_strict(delete_tensor_set, kad, t_now) ==
    {t \in delete_tensor_set : t \in DOMAIN kad /\ kad[t] + Grace < t_now}

\* get_expired_tensor: the set it returns
get_expired_tensor(delete_tensor_set, kad, t_now) ==
    ExpiredAfter(Grace, delete_tensor_set, kad, t_now)

\* get_expired_tensor restarting the timestamp of a tracked tensor
Mutant_KeepAliveAfter(delete_tensor_set, kad, t_now) ==
    [t \in (DOMAIN kad) \cup delete_tensor_set |->
        IF t \in delete_tensor_set THEN t_now ELSE kad[t]]

\* get_expired_tensor dropping the entries of tensors that are not stale
Mutant_KeepAliveAfter_prune(delete_tensor_set, kad, t_now) ==
    [t \in delete_tensor_set |-> IF t \in DOMAIN kad THEN kad[t] ELSE t_now]

\* get_expired_tensor: keep_alive_dict as it leaves it
KeepAliveAfter(delete_tensor_set, kad, t_now) ==
    [t \in (DOMAIN kad) \cup delete_tensor_set |->
        IF t \in DOMAIN kad THEN kad[t] ELSE t_now]

\* line 56 testing the lock file only
Mutant_CanDelete(t, locks, mem) == t \in locks

\* the test of line 56
CanDelete(t, locks, mem) == t \in locks /\ t \in mem

\* a lockf that does not wait (LOCK_NB, or no lockf at all)
Mutant_LockfReturns(t, rl) == TRUE

\* fcntl.lockf(f, LOCK_EX) returns only when no other process holds a lock
\* on the file
LockfReturns(t, rl) == t \notin rl

\* ------------------------------------------------------------------------
\* Initial state: node_collector up to line 69, on any file system
\* ------------------------------------------------------------------------

Init ==
    /\ now = 0
    /\ model_tensors = Manifests
    /\ pods \in PodSets
    /\ memory_files \in SUBSET Tensors
    /\ lock_files \in SUBSET Tensors
    /\ reader_lock = {}
    /\ pc = "sleep"
    /\ running_tensor_set = {}
    /\ expired_tensor_set = {}
    /\ todo = {}
    /\ cur = NoTensor
    /\ collector_lock = {}
    /\ keep_alive_dict = <<>>
    /\ cycle = 0
    /\ first_cycle = [t \in Tensors |-> 0]
    /\ last_live = [t \in Tensors |-> Never]
    /\ opened_new = FALSE
    /\ evicted_at = [t \in Tensors |-> Never]

\* ------------------------------------------------------------------------
\* The collector
\* ------------------------------------------------------------------------

\* line 71: time.sleep(COLLECT_PERIOD)
Sleep ==
    /\ pc = "sleep"
    /\ cycle < MaxCycles
    /\ \E d \in Delays :
          /\ now + d <= MaxTime
          /\ now' = now + d
    /\ pc' = "list_pods"
    /\ cycle' = cycle + 1
    /\ UNCHANGED <<envVars, running_tensor_set, expired_tensor_set, todo, cur,
                   collector_lock, keep_alive_dict, first_cycle, last_live,
                   opened_new, evicted_at, model_tensors>>

\* lines 72-77: the pods of the node and the tensors of the running models
ListPods ==
    /\ pc = "list_pods"
    /\ running_tensor_set' = RunningTensorSet(pods)
    /\ last_live' = [t \in Tensors |->
                        IF t \in RunningTensorSet(pods) /\ t \in DOMAIN keep_alive_dict
                        THEN now ELSE last_live[t]]
    /\ pc' = "list_cache"
    /\ UNCHANGED <<now, envVars, expired_tensor_set, todo, cur, collector_lock,
                   keep_alive_dict, cycle, first_cycle, opened_new, evicted_at,
                   model_tensors>>

\* lines 72-73: list_namespaced_pod raises (API server not reachable, the
\* request refused); nothing catches it and the process ends
ListPodsFails ==
    /\ pc = "list_pods"
    /\ pc' = "crashed"
    /\ UNCHANGED <<now, envVars, running_tensor_set, expired_tensor_set, todo,
                   cur, collector_lock, keep_alive_dict, histVars,
                   model_tensors>>

\* line 30: os.listdir(MEMORY_PATH) raises (the directory is missing or not
\* readable for a moment); nothing catches it and the process ends
ListdirFails ==
    /\ pc = "list_cache"
    /\ pc' = "crashed"
    /\ UNCHANGED <<now, envVars, running_tensor_set, expired_tensor_set, todo,
                   cur, collector_lock, keep_alive_dict, histVars,
                   model_tensors>>

\* lines 78-81: cache listing, get_expired_tensor, call of delete_tensors.
\* An empty expired set ends the cycle; running_tensor_set is dead from
\* here to line 75 of the next cycle.
Reconcile ==
    /\ pc = "list_cache"
    /\ LET delete_tensor_set == DeleteTensorSet(memory_files, running_tensor_set)
           expired == get_expired_tensor(delete_tensor_set, keep_alive_dict, now)
           kad == KeepAliveAfter(delete_tensor_set, keep_alive_dict, now)
       IN  /\ keep_alive_dict' = kad
           /\ first_cycle' = [t \in Tensors |->
                                 IF t \in (DOMAIN kad) \ (DOMAIN keep_alive_dict)
                                 THEN cycle ELSE first_cycle[t]]
           /\ expired_tensor_set' = expired
           /\ todo' = expired
           /\ IF expired = {}
              THEN pc' = "sleep" /\ running_tensor_set' = {}
              ELSE pc' = "exists" /\ UNCHANGED running_tensor_set
    /\ UNCHANGED <<now, envVars, cur, collector_lock, cycle, last_live,
                   opened_new, evicted_at, model_tensors>>

\* a loop whose body starts again at line 72 without the sleep of line 71
Mutant_EndOrNext(rest) ==
    /\ todo' = rest
    /\ cur' = NoTensor
    /\ opened_new' = FALSE
    /\ IF rest = {}
       THEN pc' = "list_pods" /\ running_tensor_set' = {}
            /\ expired_tensor_set' = {}
       ELSE pc' = "exists" /\ UNCHANGED <<running_tensor_set, expired_tensor_set>>

\* end of the for loop of delete_tensors: back to line 71
EndOrNext(rest) ==
    /\ todo' = rest
    /\ cur' = NoTensor
    /\ opened_new' = FALSE
    /\ IF rest = {}
       THEN pc' = "sleep" /\ running_tensor_set' = {} /\ expired_tensor_set' = {}
       ELSE pc' = "exists" /\ UNCHANGED <<running_tensor_set, expired_tensor_set>>

\* lines 53-56: next element of the set, in any order, and the two
\* os.path.exists tests
Exists(t) ==
    /\ pc = "exists"
    /\ t \in todo
    /\ IF CanDelete(t, lock_files, memory_files)
       THEN /\ pc' = "open"
            /\ cur' = t
            /\ UNCHANGED <<todo, running_tensor_set, expired_tensor_set,
                           opened_new>>
       ELSE EndOrNext(todo \ {t})
    /\ UNCHANGED <<now, envVars, collector_lock, keep_alive_dict, cycle,
                   first_cycle, last_live, evicted_at, model_tensors>>

\* line 57: open(lock_file, "w") creates the file when it is not there
Open ==
    /\ pc = "open"
    /\ lock_files' = lock_files \cup {cur}
    /\ opened_new' = (cur \notin lock_files)
    /\ pc' = "lockf"
    /\ UNCHANGED <<now, pods, memory_files, reader_lock, running_tensor_set,
                   expired_tensor_set, todo, cur, collector_lock,
                   keep_alive_dict, cycle, first_cycle, last_live, evicted_at,
                   model_tensors>>

\* line 58: fcntl.lockf(f, LOCK_EX) returns
Lockf ==
    /\ pc = "lockf"
    /\ LockfReturns(cur, reader_lock)
    /\ collector_lock' = collector_lock \cup {cur}
    /\ pc' = "remove"
    /\ UNCHANGED <<now, envVars, running_tensor_set, expired_tensor_set, todo,
                   cur, keep_alive_dict, histVars, model_tensors>>

\* line 58: fcntl.lockf(f, LOCK_EX) blocks; the wait has no bound, the
\* model lets it last long enough for keep-alive entries to run out
LockfBlocked ==
    /\ pc = "lockf"
    /\ ~LockfReturns(cur, reader_lock)
    /\ now + Grace <= MaxTime
    /\ now' = now + Grace
    /\ UNCHANGED <<envVars, pc, running_tensor_set, expired_tensor_set, todo,
                   cur, collector_lock, keep_alive_dict, histVars,
                   model_tensors>>

\* line 59 removing the lock file together with the cache file
Mutant_RemoveFile ==
    /\ pc = "remove"
    /\ cur \in memory_files
    /\ memory_files' = memory_files \ {cur}
    /\ lock_files' = lock_files \ {cur}
    /\ pc' = "unlock"
    /\ UNCHANGED <<now, pods, reader_lock, running_tensor_set,
                   expired_tensor_set, todo, cur, collector_lock,
                   keep_alive_dict, cycle, first_cycle, last_live, opened_new,
                   model_tensors>>

\* line 59: os.remove(memory_file), the program's part of the step
RemoveFile ==
    /\ pc = "remove"
    /\ cur \in memory_files
    /\ memory_files' = memory_files \ {cur}
    /\ pc' = "unlock"
    /\ UNCHANGED <<now, pods, lock_files, reader_lock, running_tensor_set,
                   expired_tensor_set, todo, cur, collector_lock,
                   keep_alive_dict, cycle, first_cycle, last_live, opened_new,
                   model_tensors>>

\* line 59: os.remove(memory_file)
Remove == RemoveFile /\ UNCHANGED evicted_at

\* line 59: os.remove raises FileNotFoundError; the exception leaves
\* delete_tensors past line 60, and nothing catches it
RemoveFails ==
    /\ pc = "remove"
    /\ cur \notin memory_files
    /\ pc' = "raised"
    /\ UNCHANGED <<now, envVars, running_tensor_set, expired_tensor_set, todo,
                   cur, collector_lock, keep_alive_dict, histVars,
                   model_tensors>>

\* the exception reaches the top of main: the process ends, its files are
\* closed and the system drops the locks it held
ProcessExit ==
    /\ pc = "raised"
    /\ pc' = "crashed"
    /\ collector_lock' = {}
    /\ UNCHANGED <<now, envVars, running_tensor_set, expired_tensor_set, todo,
                   cur, keep_alive_dict, histVars, model_tensors>>

\* delete_tensors without line 60: the lock stays with the open file
Mutant_Unlock ==
    /\ pc = "unlock"
    /\ EndOrNext(todo \ {cur})
    /\ UNCHANGED <<now, envVars, collector_lock, keep_alive_dict, cycle,
                   first_cycle, last_live, evicted_at, model_tensors>>

\* line 60: fcntl.lockf(f, LOCK_UN), then the next iteration
Unlock ==
    /\ pc = "unlock"
    /\ collector_lock' = collector_lock \ {cur}
    /\ EndOrNext(todo \ {cur})
    /\ UNCHANGED <<now, envVars, keep_alive_dict, cycle, first_cycle,
                   last_live, evicted_at, model_tensors>>

Collector ==
    \/ Sleep
    \/ ListPods
    \/ ListPodsFails
    \/ Reconcile
    \/ ListdirFails
    \/ \E t \in Tensors : Exists(t)
    \/ Open
    \/ Lockf
    \/ LockfBlocked
    \/ Remove
    \/ RemoveFails
    \/ ProcessExit
    \/ Unlock

collectorVars == <<now, pc, model_tensors, running_tensor_set,
                   expired_tensor_set, todo, cur, collector_lock,
                   keep_alive_dict, histVars>>

\* ------------------------------------------------------------------------
\* The environment: orchestrator and serving runtimes
\* ------------------------------------------------------------------------

\* the model follows the node for as long as the collector process runs
Running == pc # "crashed"

\* pods are scheduled on the node or leave it
SetPods(P) ==
    /\ Running
    /\ P # pods
    /\ pods' = P
    /\ UNCHANGED <<memory_files, lock_files, reader_lock, collectorVars>>

\* a serving process materializes a tensor in the cache
Materialize(t) ==
    /\ Running
    /\ t \notin memory_files
    /\ memory_files' = memory_files \cup {t}
    /\ UNCHANGED <<pods, lock_files, reader_lock, collectorVars>>

\* another process removes a cache file
ExternalRemove(t) ==
    /\ Running
    /\ t \in memory_files
    /\ memory_files' = memory_files \ {t}
    /\ UNCHANGED <<pods, lock_files, reader_lock, collectorVars>>

\* the serving side publishes the lock file of a tensor
PublishLock(t) ==
    /\ Running
    /\ t \notin lock_files
    /\ lock_files' = lock_files \cup {t}
    /\ UNCHANGED <<pods, memory_files, reader_lock, collectorVars>>

\* the collector has the lock file of t open (lines 57-60)
CollectorHasOpen(t) ==
    pc \in {"lockf", "remove", "unlock", "raised"} /\ cur = t

\* another process removes a lock file that no process has open or locked
UnlinkLock(t) ==
    /\ Running
    /\ t \in lock_files
    /\ t \notin reader_lock
    /\ ~CollectorHasOpen(t)
    /\ lock_files' = lock_files \ {t}
    /\ UNCHANGED <<pods, memory_files, reader_lock, collectorVars>>

\* a serving process takes a shared or an exclusive lock before it maps the
\* tensor; the collector's LOCK_EX excludes both
ReaderLock(t) ==
    /\ Running
    /\ t \in lock_files
    /\ t \notin reader_lock
    /\ t \notin collector_lock
    /\ Cardinality(reader_lock) < MaxReaders
    /\ reader_lock' = reader_lock \cup {t}
    /\ UNCHANGED <<pods, memory_files, lock_files, collectorVars>>

ReaderUnlock(t) ==
    /\ Running
    /\ t \in reader_lock
    /\ reader_lock' = reader_lock \ {t}
    /\ UNCHANGED <<pods, memory_files, lock_files, collectorVars>>

Environment ==
    \/ \E P \in PodSets : SetPods(P)
    \/ \E t \in Tensors : Materialize(t)
    \/ \E t \in Tensors : ExternalRemove(t)
    \/ \E t \in Tensors : PublishLock(t)
    \/ \E t \in Tensors : UnlinkLock(t)
    \/ \E t \in Tensors : ReaderLock(t)
    \/ \E t \in Tensors : ReaderUnlock(t)

Next == Collector \/ Environment

Spec == Init /\ [][Next]_vars

\* ------------------------------------------------------------------------
\* The same node, with the time of each eviction written down
\* ------------------------------------------------------------------------

\* line 59: os.remove(memory_file)
RemoveLogged == RemoveFile /\ evicted_at' = [evicted_at EXCEPT ![cur] = now]

LoggedCollector ==
    \/ Sleep
    \/ ListPods
    \/ ListPodsFails
    \/ Reconcile
    \/ ListdirFails
    \/ \E t \in Tensors : Exists(t)
    \/ Open
    \/ Lockf
    \/ LockfBlocked
    \/ RemoveLogged
    \/ RemoveFails
    \/ ProcessExit
    \/ Unlock

LoggedNext == LoggedCollector \/ Environment

LoggedSpec == Init /\ [][LoggedNext]_vars

\* ------------------------------------------------------------------------
\* A node on which nothing is served any more: every tensor is cached, its
\* lock file is published, no pod is scheduled.  Serving processes that are
\* still around take and release locks; cache files may be removed.
\* ------------------------------------------------------------------------

IdleNodeInit ==
    /\ Init
    /\ pods = {}
    /\ memory_files = Tensors
    /\ lock_files = Tensors

IdleNodeNext ==
    \/ Collector
    \/ \E t \in Tensors : ExternalRemove(t)
    \/ \E t \in Tensors : ReaderLock(t)
    \/ \E t \in Tensors : ReaderUnlock(t)

\* The collector is a running process: it takes its next step when it has
\* one, and a lockf that can return again and again does return.
IdleNodeSpec ==
    /\ IdleNodeInit
    /\ [][IdleNodeNext]_vars
    /\ WF_vars(Collector)
    /\ SF_vars(Lockf)

\* ------------------------------------------------------------------------
\* Lines 72-80 of one cycle on their own, for any manifests, pods and cache
\* ------------------------------------------------------------------------

\* pods on the node at the same time
MaxWorkloads == 3

PodXyz == <<"p", "o", "d", "-", "m", "1", "-", "x", "y", "z">>
PodBoth == <<"m", "1", "m", "2">>
PodShort == <<"m">>
PodIdle == <<"p", "-", "x">>

\* names the pod listing may return
Workloads == {PodXyz, PodM2, PodBoth, PodShort, PodIdle}

\* names a manifest may hold
ManifestTensors == {"a", "b", "c"}

\* names the cache directory may hold
CacheTensors == {"a", "b", "c", "d"}

\* what get_tensors may return: any of the models installed, any manifests
ManifestSets == UNION {[D -> SUBSET ManifestTensors] : D \in SUBSET ModelNames}

\* models {m1: {a, b}, m2: {b, c}}
ScenarioA == [m \in ModelNames |-> IF m = M1 THEN {"a", "b"} ELSE {"b", "c"}]

\* the first cycle after time.sleep
LiveSetInit ==
    /\ now = COLLECT_PERIOD
    /\ model_tensors \in ManifestSets
    /\ pods \in {P \in SUBSET Workloads : Cardinality(P) <= MaxWorkloads}
    /\ memory_files \in SUBSET CacheTensors
    /\ lock_files = {}
    /\ reader_lock = {}
    /\ pc = "list_pods"
    /\ running_tensor_set = {}
    /\ expired_tensor_set = {}
    /\ todo = {}
    /\ cur = NoTensor
    /\ collector_lock = {}
    /\ keep_alive_dict = <<>>
    /\ cycle = 1
    /\ first_cycle = [t \in Tensors |-> 0]
    /\ last_live = [t \in Tensors |-> Never]
    /\ opened_new = FALSE
    /\ evicted_at = [t \in Tensors |-> Never]

LiveSetNext == ListPods \/ Reconcile

LiveSetSpec == LiveSetInit /\ [][LiveSetNext]_vars

\* ------------------------------------------------------------------------
\* Steps of the collector, as seen from outside
\* ------------------------------------------------------------------------

\* os.remove of line 59 removes the cache file of t
CollectorRemoves(t) == pc = "remove" /\ pc' = "unlock" /\ cur = t

\* the cache is listed and get_expired_tensor runs (lines 78-80)
ReconcileStep == pc = "list_cache" /\ pc' \in {"sleep", "exists"}

\* delete_tensors takes t out of the set and runs the test of line 56
Handles(t) ==
    /\ pc = "exists"
    /\ t \in todo
    /\ \/ pc' = "open" /\ cur' = t
       \/ pc' # "open" /\ todo' = todo \ {t}

\* the step leaves files, locks and the registry as they are and goes on
\* with the next tensor or the next cycle
NoOp(t) ==
    /\ pc' \in {"exists", "sleep"}
    /\ todo' = todo \ {t}
    /\ memory_files' = memory_files
    /\ lock_files' = lock_files
    /\ reader_lock' = reader_lock
    /\ collector_lock' = collector_lock
    /\ collector_lock = {}
    /\ keep_alive_dict' = keep_alive_dict

\* lines 54-60 for one tensor with no other process in between: the
\* directories afterwards
Evict(t, locks, mem) ==
    IF CanDelete(t, locks, mem)
    THEN [locks |-> locks, mem |-> mem \ {t}]
    ELSE [locks |-> locks, mem |-> mem]

\* ceil(G / cycle_period)
CyclesOfGrace == (Grace + COLLECT_PERIOD - 1) \div COLLECT_PERIOD

Expired(t) == t \in DOMAIN keep_alive_dict /\ keep_alive_dict[t] + Grace <= now

\* keep-alive periods other than KEEP_ALIVE: none at all, shorter than the
\* period of the loop, equal to it
GracePeriods == 0..COLLECT_PERIOD \cup {Grace}

\* ------------------------------------------------------------------------
\* Properties
\* ------------------------------------------------------------------------

\* C1: no tensor of the cycle's live set (running_tensor_set) is in the set
\* passed to delete_tensors in that cycle.
C1_NoLiveTensorPassed == expired_tensor_set \cap running_tensor_set = {}

\* a cycle passes a tensor to delete_tensors while a cached tensor with a
\* keep-alive entry older than the grace period is live
C1_Witness ==
    /\ pc = "exists"
    /\ expired_tensor_set # {}
    /\ \E t \in running_tensor_set : t \in memory_files /\ Expired(t)

\* C2: whenever the collector stands at os.remove of a cache file, it holds
\* the exclusive lock of that tensor and no reader holds a lock on it.
C2_RemoveOnlyUnderLock ==
    pc = "remove" => (cur \in collector_lock /\ cur \notin reader_lock)

\* the collector has removed a cache file under its lock while a reader
\* holds the lock of another tensor
C2_Witness ==
    /\ pc = "unlock"
    /\ cur \in collector_lock
    /\ cur \notin memory_files
    /\ reader_lock \ {cur} # {}

\* C3: the collector never removes the cache file of a tensor that is
\* needed by a model with a running pod at the moment of the removal.
C3_NeverRemovesLive ==
    [][\A t \in Tensors : CollectorRemoves(t) => t \notin RunningTensorSet(pods)]_vars

\* C4: a tensor evicted at time T was live in no cycle that ran in
\* [T - G, T].
C4_ContinuousAbsence ==
    [][\A t \in Tensors :
          CollectorRemoves(t) => (last_live[t] = Never \/ last_live[t] < now - Grace)]_vars

\* C5: a tensor with a keep-alive entry that is in the live set of a cycle
\* has no entry at the end of that cycle.
C5_DemandResets ==
    [][ReconcileStep =>
          \A t \in running_tensor_set \cap DOMAIN keep_alive_dict :
              t \notin DOMAIN keep_alive_dict']_vars

\* C6 as stated: a tensor whose entry was inserted in cycle k is evicted in
\* no cycle lower than k + ceil(G / cycle_period).
C6_CycleLowerBound ==
    pc = "unlock" => cycle >= first_cycle[cur] + CyclesOfGrace

\* C6 amended: every tensor handed to delete_tensors, and so every tensor
\* the collector evicts, has an entry at least G old by the collector's
\* clock, inserted in an earlier cycle.
C6_GraceLowerBound ==
    /\ \A t \in expired_tensor_set : Expired(t) /\ first_cycle[t] < cycle
    /\ pc \in {"open", "lockf", "remove", "unlock"} => cur \in expired_tensor_set

\* a tensor is evicted in a cycle lower than k + ceil(G / cycle_period)
C6_Witness ==
    /\ pc = "unlock"
    /\ cur \notin memory_files
    /\ cycle < first_cycle[cur] + CyclesOfGrace

\* C7: the collector deletes a cache file only if the lock file of the
\* tensor was in the lock directory when the evictor came to lock it.
C7_OnlyWithLockFile == pc = "unlock" => ~opened_new

\* C8: the eviction of a tensor whose cache file is absent is a step that
\* raises nothing, opens and locks nothing and changes no file; evicting
\* twice in a row gives what evicting once gives.
C8_AbsentIsNoOp ==
    /\ [][\A t \in Tensors : (Handles(t) /\ t \notin memory_files) => NoOp(t)]_vars
    /\ [](\A t \in Tensors :
             LET once == Evict(t, lock_files, memory_files)
             IN  /\ Evict(t, once.locks, once.mem) = once
                 /\ t \notin memory_files =>
                        once = [locks |-> lock_files, mem |-> memory_files])

\* the evictor has skipped an expired tensor whose cache file is gone
C8_Witness ==
    /\ pc = "exists"
    /\ \E t \in expired_tensor_set \ todo : t \notin memory_files /\ t \in lock_files

\* C9: at the end of a cycle a tensor has an entry iff it was seen cached
\* and not live in this or an earlier cycle and was in no live set since:
\* each cycle adds the stale tensors and takes out the live ones.
C9_EntryIffStaleSince ==
    [][ReconcileStep =>
          DOMAIN keep_alive_dict' =
              ((DOMAIN keep_alive_dict) \cup (memory_files \ running_tensor_set))
                  \ running_tensor_set]_vars

C11_RestIsProcessed ==
    (pc = "crashed" /\ cur # NoTensor) => todo \subseteq {cur}

\* C12: no failure inside a cycle (the pod listing, the cache listing, a
\* delete) ends the loop: the collector process is never stopped by an
\* exception, so the next cycle always runs.
C12_LoopNeverEnds == pc # "crashed"

\* C13: the live set of a cycle is the union of the manifests of the models
\* whose name is a substring of the name of at least one pod, whatever the
\* order of the model list and of the pod list; models {m1: {a, b},
\* m2: {b, c}} with the pod "pod-m1-xyz" give {a, b}, and the cache
\* {a, b, c, d} then gives the stale set {c, d}.
C13_LiveSetIsUnion ==
    pc = "list_cache" =>
        /\ running_tensor_set =
               UNION {model_tensors[m] :
                         m \in {x \in models : \E w \in pods : IsSubstring(x, w)}}
        /\ \A ms \in Orderings(models) : \A ps \in Orderings(pods) :
               LiveTensors(ms, model_tensors, ps) = running_tensor_set
        /\ (model_tensors = ScenarioA /\ pods = {PodXyz}) =>
               /\ running_tensor_set = {"a", "b"}
               /\ memory_files = CacheTensors =>
                      DeleteTensorSet(memory_files, running_tensor_set) = {"c", "d"}

\* the cycle of the example has computed its live set
C13_Witness ==
    /\ pc = "list_cache"
    /\ model_tensors = ScenarioA
    /\ pods = {PodXyz}
    /\ memory_files = CacheTensors
    /\ running_tensor_set = {"a", "b"}

\* C14: on a node where a tensor stays not live and its lock file stays
\* published, with readers that release their locks again and again, a
\* tensor handed to delete_tensors does not stay in the cache for ever.
C14_EventuallyDeleted ==
    \A t \in Tensors :
        []<>(reader_lock = {}) =>
            ((pc = "exists" /\ t \in todo) ~> (t \notin memory_files))

\* C15: no step of the collector adds a file to the cache directory or to
\* the lock directory.
C15_CreatesNoFile ==
    [][pc' # pc =>
          (lock_files' \subseteq lock_files /\ memory_files' \subseteq memory_files)]_vars

\* C16: get_expired_tensor gives a cached, not live tensor without entry an
\* entry with the current time and does not return it, whatever the
\* keep-alive period (zero and periods below COLLECT_PERIOD included): no
\* tensor is handed to delete_tensors or evicted in the cycle that made its
\* entry.
C16_NewEntryNotExpired ==
    /\ [][ReconcileStep =>
             \A t \in (memory_files \ running_tensor_set) \ DOMAIN keep_alive_dict :
                 /\ t \in DOMAIN keep_alive_dict'
                 /\ keep_alive_dict'[t] = now
                 /\ t \notin expired_tensor_set']_vars
    /\ [](LET delete_tensor_set == DeleteTensorSet(memory_files, running_tensor_set)
          IN  \A g \in GracePeriods :
                  ExpiredAfter(g, delete_tensor_set, keep_alive_dict, now)
                      \cap (delete_tensor_set \ DOMAIN keep_alive_dict) = {})
    /\ [](\A t \in Tensors :
             (t \in DOMAIN keep_alive_dict /\ first_cycle[t] = cycle) =>
                 (t \notin expired_tensor_set /\ ~CollectorHasOpen(t)))

\* a cycle evicts one tensor and has made the entry of another, which is
\* cached and was not handed to delete_tensors
C16_Witness ==
    /\ pc = "unlock"
    /\ \E t \in memory_files :
          /\ t \in DOMAIN keep_alive_dict
          /\ first_cycle[t] = cycle
          /\ t \notin expired_tensor_set

\* C17: get_expired_tensor leaves the timestamp of a stale tensor that has
\* an entry as it is, and the timestamp of a stale tensor is the time of
\* the first cycle of its present run of stale cycles: it is later than the
\* last cycle that saw the tensor live.
C17_TimestampOfRunStart ==
    [][ReconcileStep =>
          \A t \in memory_files \ running_tensor_set :
              /\ t \in DOMAIN keep_alive_dict =>
                     keep_alive_dict'[t] = keep_alive_dict[t]
              /\ last_live[t] # Never => keep_alive_dict'[t] > last_live[t]]_vars

\* C18: the set a cycle hands to delete_tensors is the set of the cached,
\* not live tensors that had an entry before the cycle with
\* now - entry >= G, the case now - entry = G included; with G = 60 s a
\* tensor tracked at t0 is not in the set at t0 + 30 and is in it at t0 + 65.
C18_ExpiredSetExact ==
    /\ [][ReconcileStep =>
             /\ expired_tensor_set' =
                    {t \in memory_files \ running_tensor_set :
                        /\ t \in DOMAIN keep_alive_dict
                        /\ now - keep_alive_dict[t] >= Grace}
             /\ todo' = expired_tensor_set']_vars
    /\ [](\A t \in Tensors :
             LET tracked == [x \in {t} |-> now]
             IN  /\ Grace = 60
                 /\ get_expired_tensor({t}, tracked, now + 30) = {}
                 /\ get_expired_tensor({t}, tracked, now + 65) = {t}
                 /\ get_expired_tensor({t}, tracked, now + Grace - 1) = {}
                 /\ get_expired_tensor({t}, tracked, now + Grace) = {t})

\* a tensor is handed to delete_tensors at now - entry = G while another
\* cached tensor, tracked for less than G, is not
C18_Witness ==
    /\ pc = "exists"
    /\ \E t \in expired_tensor_set : keep_alive_dict[t] + Grace = now
    /\ \E t \in memory_files \ (running_tensor_set \cup expired_tensor_set) :
          /\ t \in DOMAIN keep_alive_dict
          /\ keep_alive_dict[t] < now

\* C19: when delete_tensors returns after it has removed the cache file of
\* a tensor, keep_alive_dict has no entry for that tensor.
C19_EntryGoesWithFile ==
    [][(pc = "unlock" /\ pc' = "sleep") => cur \notin DOMAIN keep_alive_dict']_vars

\* C20: a tensor evicted once and cached again is evicted again neither in
\* the first cycle that sees it cached and not live again nor less than G
\* after that cycle, which is later than the first eviction: two evictions
\* of a tensor are more than G apart.
C20_FreshGraceWindow ==
    [][\A t \in Tensors :
          CollectorRemoves(t) =>
              (evicted_at[t] = Never \/ now > evicted_at[t] + Grace)]_vars

\* C21: at the end of get_expired_tensor the keys of keep_alive_dict are
\* among the tensors the cycle found in the cache directory.
C21_KeysAreCached ==
    [][ReconcileStep => DOMAIN keep_alive_dict' \subseteq memory_files]_vars

\* C22: a tensor becomes EVICTABLE (is handed to delete_tensors) only from
\* UNUSED, after at least G in UNUSED since the last cycle that saw it
\* LIVE: never in the cycle that sees it live, and more than G after the
\* last such cycle.
C22_GraceSinceLastLive ==
    [][ReconcileStep =>
          \A t \in expired_tensor_set' :
              /\ t \notin running_tensor_set
              /\ last_live[t] = Never \/ last_live[t] + Grace < now]_vars

\* C23: when the cache file has been removed by another process before
\* line 59, the handling of the tensor ends without an error: the lock is
\* released and delete_tensors goes on to the next tensor or returns.
C23_RacedAwayIsNoOp ==
    [][(pc = "remove" /\ cur \notin memory_files /\ pc' # pc) =>
          (pc' \in {"exists", "sleep"} /\ cur \notin collector_lock')]_vars

\* C24: the collector holds the lock of a tensor only while delete_tensors
\* is between lines 58 and 60 for that tensor; once the handling of the
\* tensor is over, by line 60 or by an exception, the lock is released.
C24_LockReleasedOnExit ==
    \A t \in collector_lock : pc \in {"remove", "unlock"} /\ cur = t

\* the order of the steps of node_collector (lines 70-81) and the ways an
\* exception leaves it
StepOrder ==
    { <<"sleep", "list_pods">>, <<"list_pods", "list_cache">>,
      <<"list_cache", "exists">>, <<"list_cache", "sleep">>,
      <<"exists", "open">>, <<"exists", "sleep">>, <<"open", "lockf">>,
      <<"lockf", "remove">>, <<"remove", "unlock">>, <<"unlock", "exists">>,
      <<"unlock", "sleep">>,
      <<"list_pods", "crashed">>, <<"list_cache", "crashed">>,
      <<"remove", "raised">>, <<"raised", "crashed">> }

\* C25: the steps of a cycle follow one another in the order pods and live
\* set (lines 72-77), cache listing and get_expired_tensor (78-80),
\* delete_tensors (81): the live set is written by the first step only and
\* the registry by the second only, a cycle that is followed by another one
\* has gone through each of them once, and the next cycle starts from the
\* sleep of line 71, after delete_tensors has handled every tensor and
\* released its lock.
C25_StepsInOrder ==
    [][/\ pc' # pc => <<pc, pc'>> \in StepOrder
       /\ (pc = "sleep" /\ pc' # pc) => cycle' = cycle + 1
       /\ cycle' # cycle =>
             /\ pc = "sleep" /\ pc' = "list_pods"
             /\ todo = {} /\ cur = NoTensor /\ collector_lock = {}
       /\ (running_tensor_set' # running_tensor_set /\ pc' # "sleep") =>
             (pc = "list_pods" /\ pc' = "list_cache")
       /\ keep_alive_dict' # keep_alive_dict => ReconcileStep
       /\ todo' # todo =>
             \/ ReconcileStep
             \/ pc \in {"exists", "unlock"} /\ todo' \subseteq todo]_vars

\* the last tensor of the eviction of a second or later cycle is removed
C25_Witness ==
    pc = "unlock" /\ cycle >= 2 /\ todo = {cur} /\ cur \notin memory_files

\* C26: while another process holds the lock of the tensor that
\* delete_tensors waits for at line 58, the collector stays at line 58:
\* it removes no file, takes no lock, leaves the registry and the set of
\* tensors to handle as they are and starts no cycle; when the readers
\* release their locks again and again, lockf returns and the handling of
\* the tensor comes to its end.
C26_BlockedUntilReleased ==
    /\ [][(pc = "lockf" /\ cur \in reader_lock) =>
             /\ pc' = pc /\ cur' = cur /\ todo' = todo /\ cycle' = cycle
             /\ collector_lock' = collector_lock
             /\ keep_alive_dict' = keep_alive_dict
             /\ \A t \in Tensors : ~CollectorRemoves(t)]_vars
    /\ \A t \in Tensors :
          []<>(t \notin reader_lock) =>
              ((pc = "lockf" /\ cur = t) ~> ~CollectorHasOpen(t))

\* lockf has returned after a wait of a grace period on a reader
C26_Witness ==
    /\ pc = "remove"
    /\ cycle = 2
    /\ now >= keep_alive_dict[cur] + 2 * Grace
    /\ cur \in collector_lock

\* C27: a started process has an empty keep_alive_dict; its first cycle
\* enters every cached tensor that is not live with the time of that cycle
\* and hands nothing to delete_tensors; a tensor is handed over only in a
\* later cycle, when the grace period has passed since the entry made by
\* this process; and a tensor entered in the first cycle is handed over in
\* the first cycle that finds it stale a grace period after that entry.
C27_ColdStart ==
    /\ [](cycle = 0 => keep_alive_dict = <<>>)
    /\ [][ReconcileStep =>
             LET stale == memory_files \ running_tensor_set
             IN  /\ cycle = 1 =>
                       /\ keep_alive_dict' = [t \in stale |-> now]
                       /\ expired_tensor_set' = {}
                 /\ \A t \in expired_tensor_set' :
                       /\ 1 <= first_cycle[t] /\ first_cycle[t] < cycle
                       /\ keep_alive_dict[t] + Grace <= now
                 /\ \A t \in stale :
                       (/\ t \in DOMAIN keep_alive_dict
                        /\ first_cycle[t] = 1
                        /\ keep_alive_dict[t] + Grace <= now)
                           => t \in expired_tensor_set']_vars

\* a tensor found stale by the first cycle is handed to delete_tensors
C27_Witness ==
    /\ pc = "exists"
    /\ \E t \in todo :
          /\ first_cycle[t] = 1
          /\ keep_alive_dict[t] + Grace <= now
          /\ t \in memory_files

\* C28: under the test of line 37 (the model name is a substring of the
\* pod name) no pod of the node makes two installed models running.
C28_OneModelPerWorkload ==
    \A w \in pods :
        Cardinality({m \in models : is_running(m, <<w>>)}) <= 1

\* C29: no step removes a key of keep_alive_dict or changes the value of
\* one; only get_expired_tensor writes to it, and it adds exactly the
\* cached tensors that are not live and have no entry yet, with the time
\* of the cycle: an entry stays the time of the first cycle that found the
\* tensor cached and not live.
C29_EntriesArePermanent ==
    [][/\ DOMAIN keep_alive_dict \subseteq DOMAIN keep_alive_dict'
       /\ \A t \in DOMAIN keep_alive_dict :
             keep_alive_dict'[t] = keep_alive_dict[t]
       /\ IF ReconcileStep
          THEN /\ DOMAIN keep_alive_dict' =
                     DOMAIN keep_alive_dict
                         \cup (memory_files \ running_tensor_set)
               /\ \A t \in DOMAIN keep_alive_dict' :
                     t \notin DOMAIN keep_alive_dict =>
                         keep_alive_dict'[t] = now
          ELSE keep_alive_dict' = keep_alive_dict]_vars

\* an entry outlives a live period of its tensor and the cache file
C29_Witness ==
    /\ pc = "sleep"
    /\ \E t \in DOMAIN keep_alive_dict :
          /\ last_live[t] > keep_alive_dict[t]
          /\ t \notin memory_files

\* C30: the collector holds at most one lock at a time, the lock of the
\* tensor that delete_tensors is at between lines 58 and 60; it holds none
\* while it sleeps, lists the pods or the cache, tests the files of the
\* next tensor or waits for a lock.
C30_OneLockInsideDelete ==
    /\ Cardinality(collector_lock) <= 1
    /\ pc \in {"sleep", "list_pods", "list_cache", "exists", "open", "lockf"}
          => collector_lock = {}
    /\ pc \in {"remove", "unlock"} => collector_lock = {cur}

\* the lock of the second tensor of a cycle is held, that of the first
\* one has been given back
C30_Witness ==
    /\ pc = "unlock"
    /\ collector_lock = {cur}
    /\ \E u \in expired_tensor_set :
          u # cur /\ u \notin todo /\ u \notin memory_files

\* a step of the collector process: its position, its set of tensors to
\* handle or its clock moves
CollectorStep == pc' # pc \/ todo' # todo \/ now' # now

\* C31: delete_tensors removes the cache file of the tensor it is at and
\* nothing else: no step of the collector takes a file out of the lock
\* directory, the lock file of a removed tensor is there after line 59 and
\* after line 60, and every cache file the collector removes belongs to the
\* set get_expired_tensor returned in this cycle, which lies within the
\* cache listing of the cycle minus its live set.
C31_OnlyCacheFileRemoved ==
    [][/\ CollectorStep =>
             /\ lock_files \subseteq lock_files'
             /\ memory_files' \in {memory_files, memory_files \ {cur}}
       /\ \A t \in Tensors :
             CollectorRemoves(t) =>
                 /\ t \in lock_files'
                 /\ memory_files' = memory_files \ {t}
                 /\ t \in expired_tensor_set
                 /\ t \notin running_tensor_set
       /\ (pc = "unlock" /\ pc' # pc) => cur \in lock_files'
       /\ ReconcileStep =>
             expired_tensor_set' \subseteq memory_files \ running_tensor_set]_vars

\* a cache file has been removed and the lock file of the tensor is there
C31_Witness ==
    /\ pc = "unlock"
    /\ cur \in expired_tensor_set
    /\ cur \notin memory_files
    /\ cur \in lock_files
    /\ lock_files = Tensors

\* C32: every cycle, the first one too, begins with the sleep of line 71,
\* which lasts COLLECT_PERIOD at least: the k-th listing of the pods comes
\* no earlier than k * COLLECT_PERIOD after the start, nothing is listed,
\* entered in the registry or removed before the first sleep is over, the
\* clock does not go back, and the cycle counter moves only by a step that
\* takes COLLECT_PERIOD or more.
C32_SleepBeforeEveryCycle ==
    /\ [](/\ now >= cycle * COLLECT_PERIOD
          /\ pc # "sleep" => cycle >= 1
          /\ now < COLLECT_PERIOD =>
                /\ pc = "sleep"
                /\ keep_alive_dict = <<>>
                /\ running_tensor_set = {} /\ expired_tensor_set = {}
                /\ todo = {} /\ cur = NoTensor)
    /\ [][/\ now' >= now
          /\ (cycle' # cycle \/ (pc = "sleep" /\ pc' # pc)) =>
                /\ pc = "sleep" /\ pc' = "list_pods"
                /\ cycle' = cycle + 1
                /\ now' >= now + COLLECT_PERIOD
          /\ \A t \in Tensors : CollectorRemoves(t) => now >= COLLECT_PERIOD]_vars

\* the second cycle starts COLLECT_PERIOD after the first, not earlier
C32_Witness ==
    pc = "list_pods" /\ cycle = 2 /\ now = 2 * COLLECT_PERIOD

=============================================================================
